---- MODULE Spec2Model ----
(***************************************************************************)
(* Model of task2/report.py: the department report generator.              *)
(*                                                                         *)
(* Text is modelled at character level: a Python str is a sequence of      *)
(* one-character strings, a text file is a sequence of lines, each line    *)
(* carrying its terminating "\n" as file iteration yields it.  A character *)
(* that a string of the module cannot hold (the module is ASCII only)      *)
(* stands as its Python escape, one element of the sequence for one        *)
(* character: "\\u041d" is the Cyrillic capital letter En.                  *)
(***************************************************************************)
EXTENDS Integers, Sequences, FiniteSets, TLC

VARIABLES
    argv,             \* sys.argv: the script name and its arguments
    input_filename,   \* str: the input path, Unbound before lines 94-96
    output_filename,  \* str: the output path, Unbound before lines 94-96
    separator,        \* str: the separator, Unbound before lines 94-96
    option,           \* str: the menu option, Unset before the menu is read
    fs,               \* the file system: path -> File or NoFile
    pc,               \* where the run is: "main", "menu", "input", "report",
                      \* "generated", "done"
    err,              \* the exception that ended the run, or NoError
    hierarchy,        \* departments_hierarchy of generate_report (ordered dict)
    report,           \* departments_report of generate_report (list of dicts)
    console           \* stdout: the lines printed so far

vars == <<argv, input_filename, output_filename, separator, option, fs, pc,
          err, hierarchy, report, console>>

-----------------------------------------------------------------------------
(* Bounds of the model.                                                    *)

\* The largest number of data lines (lines after the header) of an input file
\* when generate_report is called on it.
MaxLines == 3

\* The largest number of data lines of an input file when the script is run
\* from its command line.
MainLines == 2

-----------------------------------------------------------------------------
(* Python str and int primitives.                                          *)

NoError == "NoError"
Unset == "Unset"
\* A name of parse_parameters that holds no str yet; no str equals it, the
\* elements of a str being single characters.
Unbound == <<"Unbound">>

\* The characters int() skips before and after a literal: \t \n \v \f \r and
\* the space, and the spaces of Unicode beyond ASCII, which it reads as
\* spaces.  (str.isspace also holds of \x1c to \x1f; int() rejects them.)
IntWhitespace ==
    {" ", "\n", "\t", "\f", "\r", "\\v",
     "\\x85", "\\xa0", "\\u1680", "\\u2000", "\\u2001", "\\u2002",
     "\\u2003", "\\u2004", "\\u2005", "\\u2006", "\\u2007", "\\u2008",
     "\\u2009", "\\u200a", "\\u2028", "\\u2029", "\\u202f", "\\u205f",
     "\\u3000"}
Digits == <<"0", "1", "2", "3", "4", "5", "6", "7", "8", "9">>
DigitSet == {Digits[i] : i \in 1..10}

\* s[i:] for a 1-based i.
Drop(s, i) == SubSeq(s, i, Len(s))

\* s.startswith(p, i-1): p occurs in s at the 1-based position i.
StartsAt(s, p, i) ==
    /\ i + Len(p) - 1 <= Len(s)
    /\ \A k \in 1..Len(p) : s[i + k - 1] = p[k]

\* line.split(sep) for a non-empty sep: the fields between the occurrences of
\* sep, found left to right without overlap; cur is the field being read.
RECURSIVE SplitFrom(_, _, _, _)
SplitFrom(s, sep, i, cur) ==
    IF i > Len(s) THEN <<cur>>
    ELSE IF StartsAt(s, sep, i)
         THEN <<cur>> \o SplitFrom(s, sep, i + Len(sep), <<>>)
         ELSE SplitFrom(s, sep, i + 1, Append(cur, s[i]))

Split(s, sep) == SplitFrom(s, sep, 1, <<>>)

\* The value of a digit character.
DigitValue(c) == CHOOSE d \in 0..9 : Digits[d + 1] = c

\* The text int() parses: s without the whitespace that leads and trails it.
RECURSIVE IntLStrip(_)
IntLStrip(s) ==
    IF s # <<>> /\ Head(s) \in IntWhitespace THEN IntLStrip(Tail(s)) ELSE s

RECURSIVE IntRStrip(_)
IntRStrip(s) ==
    IF s # <<>> /\ s[Len(s)] \in IntWhitespace
    THEN IntRStrip(SubSeq(s, 1, Len(s) - 1)) ELSE s

IntStrip(s) == IntRStrip(IntLStrip(s))

\* The digits of an int literal: digits, with single underscores allowed
\* between two digits.  (The digits are the ASCII ones: the texts of the
\* model hold no other decimal digit of Unicode.)
IsDigitRun(s) ==
    /\ s # <<>>
    /\ \A i \in 1..Len(s) : s[i] \in DigitSet \cup {"_"}
    /\ s[1] # "_" /\ s[Len(s)] # "_"
    /\ \A i \in 1..(Len(s) - 1) : ~(s[i] = "_" /\ s[i + 1] = "_")

\* The text after the optional sign of a stripped int literal.
Unsigned(t) == IF t # <<>> /\ Head(t) \in {"+", "-"} THEN Tail(t) ELSE t

\* int(s) succeeds: optional whitespace, optional sign, digits.
IsInt(s) == IsDigitRun(Unsigned(IntStrip(s)))

RECURSIVE DigitsValue(_, _)
DigitsValue(s, acc) ==
    IF s = <<>> THEN acc
    ELSE IF Head(s) = "_" THEN DigitsValue(Tail(s), acc)
    ELSE DigitsValue(Tail(s), 10 * acc + DigitValue(Head(s)))

\* int(s), for an s with IsInt(s).
ParseInt(s) ==
    LET t == IntStrip(s)
        v == DigitsValue(Unsigned(t), 0)
    IN  IF Head(t) = "-" THEN -v ELSE v

\* str(n) of a natural number n.
RECURSIVE NatStr(_)
NatStr(n) ==
    IF n < 10 THEN <<Digits[n + 1]>>
    ELSE Append(NatStr(n \div 10), Digits[(n % 10) + 1])

\* str(n) of an int n.
IntStr(n) == IF n < 0 THEN <<"-">> \o NatStr(-n) ELSE NatStr(n)

-----------------------------------------------------------------------------
(* repr of a Python float: the text of the double nearest to num/den, as   *)
(* float_repr gives it: the shortest decimal text that reads back as that  *)
(* double, always with a fractional part.  Long binary numbers are         *)
(* sequences of limbs in base 2^10, most significant first, so that no     *)
(* intermediate value exceeds the range of machine integers.  Covers every *)
(* |num/den| below 2^31 that is zero or at least 10^-4 (the range that     *)
(* float_repr writes in positional notation), with den below 2^20.         *)

Base == 2^10

\* One step of MulLimbs: the limb h times f, plus the carry that heads rest.
MulStep(h, f, rest) ==
    LET v == f * h + Head(rest)
    IN  <<v \div Base, v % Base>> \o Tail(rest)

RECURSIVE MulCarry(_, _, _)
MulCarry(limbs, f, c) ==
    IF limbs = <<>> THEN <<c>>
    ELSE MulStep(Head(limbs), f, MulCarry(Tail(limbs), f, c))

\* limbs * f + c at the width of limbs: the carry out is added into the top
\* limb, which is left unreduced.
MulLimbs(limbs, f, c) ==
    LET r == MulCarry(limbs, f, c)
    IN  <<r[1] * Base + r[2]>> \o SubSeq(r, 3, Len(r))

\* a < b for numbers of equal width.
RECURSIVE LimbsLess(_, _)
LimbsLess(a, b) ==
    IF a = <<>> THEN FALSE
    ELSE IF Head(a) # Head(b) THEN Head(a) < Head(b)
    ELSE LimbsLess(Tail(a), Tail(b))

Zeros(n) == [i \in 1..n |-> 0]
IsZero(limbs) == \A i \in 1..Len(limbs) : limbs[i] = 0

\* The number of bits of the natural number n.
RECURSIVE BitLength(_)
BitLength(n) == IF n = 0 THEN 0 ELSE 1 + BitLength(n \div 2)

\* The first w limbs of the expansion of r/n in base 2^10, 0 <= r < n.
RECURSIVE FracLimbs(_, _, _)
FracLimbs(r, n, w) ==
    IF w = 0 THEN <<>>
    ELSE <<(Base * r) \div n>> \o FracLimbs((Base * r) % n, n, w - 1)

\* What is left of r/n after its first w limbs, as a remainder of n.
RECURSIVE FracRem(_, _, _)
FracRem(r, n, w) == IF w = 0 THEN r ELSE FracRem((Base * r) % n, n, w - 1)

\* The number of zero bits that open the binary expansion of r/n, 0 < r < n.
RECURSIVE LeadZeros(_, _)
LeadZeros(r, n) == IF 2 * r >= n THEN 0 ELSE 1 + LeadZeros(2 * r, n)

\* The double nearest to k/n (k >= 0, ties to even): its integer part int and
\* its fraction frac / 2^scale, 53 significant bits in all.  frac is a limb
\* sequence whose top limb holds the scale % 10 high bits.
ToDouble(k, n) ==
    LET I == k \div n
        r == k % n
        s == IF I > 0 THEN 53 - BitLength(I) ELSE 53 + LeadZeros(r, n)
        q == s \div 10
        t == s % 10
        J == (r * 2^t) \div n
        r1 == (r * 2^t) % n
        F == <<J>> \o FracLimbs(r1, n, q)
        r2 == FracRem(r1, n, q)
        up == 2 * r2 > n \/ (2 * r2 = n /\ F[q + 1] % 2 = 1)
        R == MulLimbs(F, 1, 1)
    IN  IF r = 0 THEN [int |-> I, frac |-> <<>>, scale |-> 0]
        ELSE IF up /\ R[1] = 2^t
            THEN [int |-> I + 1, frac |-> <<>>, scale |-> 0]
        ELSE [int |-> I, frac |-> IF up THEN R ELSE F, scale |-> s]

\* 2^(scale) - cur, for a fraction cur whose top limb holds t bits.
Complement(cur, t) ==
    MulLimbs([i \in 1..Len(cur) |->
                 IF i = 1 THEN 2^t - 1 - cur[i] ELSE Base - 1 - cur[i]], 1, 1)

\* The fewest decimals that still read back as the double: cur / 2^scale is
\* the part of the fraction not yet written, p10 is 10^(the number of digits
\* written); the text may stop once cur, or what cur lacks to 1, is below
\* half a unit in the last place of the double, and takes the nearer of the
\* two.
RECURSIVE ShortestFrom(_, _, _, _)
ShortestFrom(cur, p10, digs, t) ==
    LET pad == Zeros(Len(p10) - Len(cur))
        lo == MulLimbs(pad \o cur, 2, 0)
        hi == MulLimbs(pad \o Complement(cur, t), 2, 0)
        loOk == LimbsLess(lo, p10)
        hiOk == LimbsLess(hi, p10)
        m == MulLimbs(cur, 10, 0)
    IN  IF loOk \/ hiOk
        THEN [digs |-> digs, up |-> hiOk /\ (~loOk \/ ~LimbsLess(lo, hi))]
        ELSE ShortestFrom([m EXCEPT ![1] = @ % 2^t], MulLimbs(p10, 10, 0),
                          Append(digs, m[1] \div 2^t), t)

\* A decimal digit sequence plus one.
RECURSIVE DigitsInc(_)
DigitsInc(ds) ==
    IF ds = <<>> THEN <<1>>
    ELSE IF ds[Len(ds)] = 9
         THEN Append(DigitsInc(SubSeq(ds, 1, Len(ds) - 1)), 0)
         ELSE [ds EXCEPT ![Len(ds)] = @ + 1]

RECURSIVE NatDigits(_)
NatDigits(n) == IF n < 10 THEN <<n>> ELSE Append(NatDigits(n \div 10), n % 10)

DigitChars(ds) == [i \in 1..Len(ds) |-> Digits[ds[i] + 1]]

\* repr(k / n) for k >= 0.
PosFloatStr(k, n) ==
    LET d == ToDouble(k, n)
        sh == ShortestFrom(d.frac, Zeros(Len(d.frac) + 3) \o <<1>>, <<>>,
                           d.scale % 10)
        P == Len(sh.digs)
        all == NatDigits(d.int) \o sh.digs
        ds == IF sh.up THEN DigitsInc(all) ELSE all
    IN  IF IsZero(d.frac) THEN NatStr(d.int) \o <<".", "0">>
        ELSE DigitChars(SubSeq(ds, 1, Len(ds) - P)) \o <<".">>
             \o (IF P = 0 THEN <<"0">>
                 ELSE DigitChars(SubSeq(ds, Len(ds) - P + 1, Len(ds))))

\* str(num / den): the text of a float as print and an f-string give it.
FloatStr(num, den) ==
    IF num < 0 THEN <<"-">> \o PosFloatStr(-num, den) ELSE PosFloatStr(num, den)

-----------------------------------------------------------------------------
(* Texts of the program.                                                   *)

\* INPUT_FILE, OUTPUT_FILE, SEPARATOR: the defaults of parse_parameters.
INPUT_FILE == <<"t", "e", "s", "t", ".", "c", "s", "v">>
OUTPUT_FILE == <<"r", "e", "s", "u", "l", "t", ".", "c", "s", "v">>
SEPARATOR == <<";">>

\* The keys of a department's dict, in insertion order; in Latin letters
\* they read 'Nazvanie', 'Chislennost',
\* 'Vilka zarplat' and 'Srednyaya zarplata'.
LabelName ==
    <<"\\u041d", "\\u0430", "\\u0437", "\\u0432", "\\u0430", "\\u043d",
      "\\u0438", "\\u0435">>
LabelCount ==
    <<"\\u0427", "\\u0438", "\\u0441", "\\u043b", "\\u0435", "\\u043d",
      "\\u043d", "\\u043e", "\\u0441", "\\u0442", "\\u044c">>
LabelRange ==
    <<"\\u0412", "\\u0438", "\\u043b", "\\u043a", "\\u0430", " ", "\\u0437",
      "\\u0430", "\\u0440", "\\u043f", "\\u043b", "\\u0430", "\\u0442">>
LabelAverage ==
    <<"\\u0421", "\\u0440", "\\u0435", "\\u0434", "\\u043d", "\\u044f",
      "\\u044f", " ", "\\u0437", "\\u0430", "\\u0440", "\\u043f", "\\u043b",
      "\\u0430", "\\u0442", "\\u0430">>
Labels == <<LabelName, LabelCount, LabelRange, LabelAverage>>

\* The keys of parameters_options, in the order of its items.
InputFileKeys ==
    { <<"-", "i", "f">>,
      <<"-", "-", "i", "n", "p", "u", "t", "-", "f", "i", "l", "e">> }
OutputFileKeys ==
    { <<"-", "o", "f">>,
      <<"-", "-", "o", "u", "t", "p", "u", "t", "-", "f", "i", "l", "e">> }
SeparatorKeys ==
    { <<"-", "s">>,
      <<"-", "-", "s", "e", "p", "a", "r", "a", "t", "o", "r">> }

\* The five lines get_menu_option prints; in Latin letters they read
\* 'Vyberite rezhim raboty programmy.',
\* '1. Vyvesti ierarhiyu komand, t.e. departament i vse komandy, kotorye
\* vhodyat v nego.',
\* '2. Vyvesti svodnyy otchet po departamentam: nazvanie, chislennost,
\* "vilka" zarplat.',
\* '3. Sohranit svodnyy otchet iz punkta 2. v vide csv-fayla.',
\* 'Vvedite odno chislo.'
MenuPrompt ==
    << <<"\\u0412", "\\u044b", "\\u0431", "\\u0435", "\\u0440", "\\u0438",
         "\\u0442", "\\u0435", " ", "\\u0440", "\\u0435", "\\u0436",
         "\\u0438", "\\u043c", " ", "\\u0440", "\\u0430", "\\u0431",
         "\\u043e", "\\u0442", "\\u044b", " ", "\\u043f", "\\u0440",
         "\\u043e", "\\u0433", "\\u0440", "\\u0430", "\\u043c", "\\u043c",
         "\\u044b", ".">>,
       <<"1", ".", " ", "\\u0412", "\\u044b", "\\u0432", "\\u0435", "\\u0441",
         "\\u0442", "\\u0438", " ", "\\u0438", "\\u0435", "\\u0440",
         "\\u0430", "\\u0440", "\\u0445", "\\u0438", "\\u044e", " ",
         "\\u043a", "\\u043e", "\\u043c", "\\u0430", "\\u043d", "\\u0434",
         ",", " ", "\\u0442", ".", "\\u0435", ".", " ", "\\u0434", "\\u0435",
         "\\u043f", "\\u0430", "\\u0440", "\\u0442", "\\u0430", "\\u043c",
         "\\u0435", "\\u043d", "\\u0442", " ", "\\u0438", " ", "\\u0432",
         "\\u0441", "\\u0435", " ", "\\u043a", "\\u043e", "\\u043c",
         "\\u0430", "\\u043d", "\\u0434", "\\u044b", ",", " ", "\\u043a",
         "\\u043e", "\\u0442", "\\u043e", "\\u0440", "\\u044b", "\\u0435",
         " ", "\\u0432", "\\u0445", "\\u043e", "\\u0434", "\\u044f",
         "\\u0442", " ", "\\u0432", " ", "\\u043d", "\\u0435", "\\u0433",
         "\\u043e", ".">>,
       <<"2", ".", " ", "\\u0412", "\\u044b", "\\u0432", "\\u0435", "\\u0441",
         "\\u0442", "\\u0438", " ", "\\u0441", "\\u0432", "\\u043e",
         "\\u0434", "\\u043d", "\\u044b", "\\u0439", " ", "\\u043e",
         "\\u0442", "\\u0447", "\\u0451", "\\u0442", " ", "\\u043f",
         "\\u043e", " ", "\\u0434", "\\u0435", "\\u043f", "\\u0430",
         "\\u0440", "\\u0442", "\\u0430", "\\u043c", "\\u0435", "\\u043d",
         "\\u0442", "\\u0430", "\\u043c", ":", " ", "\\u043d", "\\u0430",
         "\\u0437", "\\u0432", "\\u0430", "\\u043d", "\\u0438", "\\u0435",
         ",", " ", "\\u0447", "\\u0438", "\\u0441", "\\u043b", "\\u0435",
         "\\u043d", "\\u043d", "\\u043e", "\\u0441", "\\u0442", "\\u044c",
         ",", " ", "\"", "\\u0432", "\\u0438", "\\u043b", "\\u043a",
         "\\u0430", "\"", " ", "\\u0437", "\\u0430", "\\u0440", "\\u043f",
         "\\u043b", "\\u0430", "\\u0442", ".">>,
       <<"3", ".", " ", "\\u0421", "\\u043e", "\\u0445", "\\u0440", "\\u0430",
         "\\u043d", "\\u0438", "\\u0442", "\\u044c", " ", "\\u0441",
         "\\u0432", "\\u043e", "\\u0434", "\\u043d", "\\u044b", "\\u0439",
         " ", "\\u043e", "\\u0442", "\\u0447", "\\u0451", "\\u0442", " ",
         "\\u0438", "\\u0437", " ", "\\u043f", "\\u0443", "\\u043d",
         "\\u043a", "\\u0442", "\\u0430", " ", "2", ".", " ", "\\u0432", " ",
         "\\u0432", "\\u0438", "\\u0434", "\\u0435", " ", "c", "s", "v", "-",
         "\\u0444", "\\u0430", "\\u0439", "\\u043b", "\\u0430", ".">>,
       <<"\\u0412", "\\u0432", "\\u0435", "\\u0434", "\\u0438", "\\u0442",
         "\\u0435", " ", "\\u043e", "\\u0434", "\\u043d", "\\u043e", " ",
         "\\u0447", "\\u0438", "\\u0441", "\\u043b", "\\u043e", ".">> >>

\* The texts print_department_hierarchy puts before a department and before
\* a team; in Latin letters they read 'Departament: ' and '\tKomanda: '.
DepartmentPrefix ==
    <<"\\u0414", "\\u0435", "\\u043f", "\\u0430", "\\u0440", "\\u0442",
      "\\u0430", "\\u043c", "\\u0435", "\\u043d", "\\u0442", ":", " ">>
TeamPrefix ==
    <<"\t", "\\u041a", "\\u043e", "\\u043c", "\\u0430", "\\u043d", "\\u0434",
      "\\u0430", ":", " ">>

-----------------------------------------------------------------------------
(* The file system.  A file is its lines and its modification time; a path *)
(* that names no file maps to NoFile or is no path of fs.  Modification     *)
(* times are small integers: 1 and 2 for the files there before the run, 3  *)
(* for a file the run writes.                                              *)

NoFile == [exists |-> FALSE, lines |-> <<>>, mtime |-> 0]

\* What is at a path.
FileAt(path) == IF path \in DOMAIN fs THEN fs[path] ELSE NoFile

exists(path) == FileAt(path).exists

\* The file system after open(path, 'w+') and the writing of lines.
Written(path, lines) ==
    [p \in DOMAIN fs \cup {path} |->
        IF p = path THEN [exists |-> TRUE, lines |-> lines, mtime |-> 3]
        ELSE fs[p]]

\* The characters UTF-8 writes in two bytes: \x85, \xa0 and the letters of
\* the Russian alphabet.
TwoBytes ==
    {"\\x85", "\\xa0", "\\u0410", "\\u0411", "\\u0412", "\\u0413", "\\u0414",
     "\\u0415", "\\u0416", "\\u0417", "\\u0418", "\\u0419", "\\u041a",
     "\\u041b", "\\u041c", "\\u041d", "\\u041e", "\\u041f", "\\u0420",
     "\\u0421", "\\u0422", "\\u0423", "\\u0424", "\\u0425", "\\u0426",
     "\\u0427", "\\u0428", "\\u0429", "\\u042a", "\\u042b", "\\u042c",
     "\\u042d", "\\u042e", "\\u042f", "\\u0430", "\\u0431", "\\u0432",
     "\\u0433", "\\u0434", "\\u0435", "\\u0436", "\\u0437", "\\u0438",
     "\\u0439", "\\u043a", "\\u043b", "\\u043c", "\\u043d", "\\u043e",
     "\\u043f", "\\u0440", "\\u0441", "\\u0442", "\\u0443", "\\u0444",
     "\\u0445", "\\u0446", "\\u0447", "\\u0448", "\\u0449", "\\u044a",
     "\\u044b", "\\u044c", "\\u044d", "\\u044e", "\\u044f", "\\u0401",
     "\\u0451"}

\* The characters UTF-8 writes in three bytes: the spaces from \u1680 on.
ThreeBytes ==
    {"\\u1680", "\\u2000", "\\u2001", "\\u2002", "\\u2003", "\\u2004",
     "\\u2005", "\\u2006", "\\u2007", "\\u2008", "\\u2009", "\\u200a",
     "\\u2028", "\\u2029", "\\u202f", "\\u205f", "\\u3000"}

\* The bytes of one character in UTF-8, the encoding of the files; every
\* other character of the model's texts is ASCII.
Utf8Len(c) == IF c \in TwoBytes THEN 2 ELSE IF c \in ThreeBytes THEN 3 ELSE 1

RECURSIVE LineSize(_)
LineSize(line) ==
    IF line = <<>> THEN 0 ELSE Utf8Len(Head(line)) + LineSize(Tail(line))

\* os.stat(path).st_size: the size of a file in bytes.
RECURSIVE SizeOf(_)
SizeOf(lines) ==
    IF lines = <<>> THEN 0 ELSE LineSize(Head(lines)) + SizeOf(Tail(lines))

\* filecmp.cmp(f1, f2) with shallow=True, for two existing regular files:
\* equal os.stat signatures (size, mtime) settle it, else the contents do.
filecmp(f1, f2) ==
    \/ f1 = f2
    \/ /\ SizeOf(FileAt(f1).lines) = SizeOf(FileAt(f2).lines)
       /\ FileAt(f1).mtime = FileAt(f2).mtime
    \/ FileAt(f1).lines = FileAt(f2).lines

\* The number of columns validate_files asks of the first data row, and the
\* index of the column it parses.
ColumnCount == 6
SalaryIndex == 5

\* The try block of validate_files on the second line of the file.
SecondLineError(line, sep) ==
    LET splitted_line == Split(line, sep)
    IN  IF Len(splitted_line) < SalaryIndex + 1 THEN "ValueError"  \* IndexError
        ELSE IF ~IsInt(splitted_line[SalaryIndex + 1]) THEN "ValueError"
        ELSE IF Len(splitted_line) # ColumnCount THEN "ValueError"
        ELSE NoError

\* file.readline() called n times on a freshly opened file: '' at the end.
Readline(lines, n) == IF n <= Len(lines) THEN lines[n] ELSE <<>>

\* validate_files: the exception it raises, or NoError.  line.split('')
\* raises ValueError for the empty separator.
validate_files(input, output, sep) ==
    IF exists(output) /\ ~exists(input) THEN "FileNotFoundError"  \* os.stat
    ELSE IF exists(output) /\ filecmp(input, output) THEN "ValueError"
    ELSE IF ~exists(input) THEN "ValueError"
    ELSE IF Split(input, <<".">>)[Len(Split(input, <<".">>))] # <<"c", "s", "v">>
         THEN "ValueError"
    ELSE IF sep = <<>> THEN "ValueError"
    ELSE SecondLineError(Readline(FileAt(input).lines, 2), sep)

-----------------------------------------------------------------------------
(* parse_parameters.  Positions in argv are those of Python, from 0.       *)

\* The first loop for one parameter: the position of its key in args, 0 when
\* args holds none; a key met when the position is already set is an error.
RECURSIVE KeyIndex(_, _, _, _)
KeyIndex(args, keys, fact_parameter_index, index) ==
    IF fact_parameter_index >= Len(args)
    THEN [error |-> NoError, index |-> index]
    ELSE IF args[fact_parameter_index + 1] \in keys
         THEN IF index # 0
              THEN [error |-> "AttributeError", index |-> index]
              ELSE KeyIndex(args, keys, fact_parameter_index + 1,
                            fact_parameter_index)
         ELSE KeyIndex(args, keys, fact_parameter_index + 1, index)

\* The second loop for one parameter: the argument after its key, or its
\* default; a key that ends args (or args of one item) is an error.
ParameterValue(args, param_index, default) ==
    IF param_index + 1 = Len(args)
    THEN [error |-> "AttributeError", value |-> default]
    ELSE IF param_index # 0
         THEN [error |-> NoError, value |-> args[param_index + 2]]
         ELSE [error |-> NoError, value |-> default]

\* parse_parameters: the exception it raises, or NoError, and the values of
\* input_filename, output_filename and separator when lines 94-96 bind them.
parse_parameters(args) ==
    LET none == [input_filename |-> Unbound, output_filename |-> Unbound,
                 separator |-> Unbound]
        iif == KeyIndex(args, InputFileKeys, 0, 0)
        iof == KeyIndex(args, OutputFileKeys, 0, 0)
        is == KeyIndex(args, SeparatorKeys, 0, 0)
        vif == ParameterValue(args, iif.index, INPUT_FILE)
        vof == ParameterValue(args, iof.index, OUTPUT_FILE)
        vs == ParameterValue(args, is.index, SEPARATOR)
    IN  IF Len(args) = 1
        THEN [error |-> validate_files(INPUT_FILE, OUTPUT_FILE, SEPARATOR),
              input_filename |-> INPUT_FILE, output_filename |-> OUTPUT_FILE,
              separator |-> SEPARATOR]
        ELSE IF \E r \in {iif, iof, is} : r.error # NoError
             THEN [error |-> "AttributeError"] @@ none
        ELSE IF \E r \in {vif, vof, vs} : r.error # NoError
             THEN [error |-> "AttributeError"] @@ none
        ELSE [error |-> validate_files(vif.value, vof.value, vs.value),
              input_filename |-> vif.value, output_filename |-> vof.value,
              separator |-> vs.value]

-----------------------------------------------------------------------------
(* generate_hierarchy.  A dict is a sequence of its items in insertion     *)
(* order; a set of teams is a set.                                         *)

\* HierarchyAdd with one set shared by every department, as a default
\* factory that hands out the same set object would give.
HierarchyAddShared(departments_list, department, team) ==
    LET all == UNION {departments_list[i].teams : i \in DOMAIN departments_list}
                   \cup {team}
        keys == IF \E i \in DOMAIN departments_list :
                       departments_list[i].department = department
                THEN departments_list
                ELSE Append(departments_list,
                            [department |-> department, teams |-> {}])
    IN  [i \in DOMAIN keys |-> [keys[i] EXCEPT !.teams = all]]

\* departments_list[department].add(team) on a defaultdict(set).
HierarchyAdd(departments_list, department, team) ==
    IF \E i \in DOMAIN departments_list :
           departments_list[i].department = department
    THEN [i \in DOMAIN departments_list |->
             IF departments_list[i].department = department
             THEN [departments_list[i] EXCEPT !.teams = @ \cup {team}]
             ELSE departments_list[i]]
    ELSE Append(departments_list, [department |-> department, teams |-> {team}])

\* The 1-based position of the first line the loops parse: line_number 0,
\* the header, is skipped.
FirstDataLine == 2

\* The loop of generate_hierarchy from line line_number on: split needs a
\* separator that is not empty, the unpacking _, department, team, *_ three
\* fields.
RECURSIVE HierarchyLoop(_, _, _, _)
HierarchyLoop(lines, line_number, sep, departments_list) ==
    IF line_number > Len(lines)
    THEN [error |-> NoError, value |-> departments_list]
    ELSE LET fields == Split(lines[line_number], sep)
         IN  IF sep = <<>> \/ Len(fields) < 3
             THEN [error |-> "ValueError", value |-> departments_list]
             ELSE HierarchyLoop(lines, line_number + 1, sep,
                      HierarchyAdd(departments_list, fields[2], fields[3]))

\* generate_hierarchy without the test that skips line_number 0.
generate_hierarchy_with_header(lines, sep) == HierarchyLoop(lines, 1, sep, <<>>)

generate_hierarchy(lines, sep) == HierarchyLoop(lines, FirstDataLine, sep, <<>>)

-----------------------------------------------------------------------------
(* generate_report_by_department.                                          *)

\* SalariesAdd with a new department put first instead of last.
SalariesAddFront(departments_dict, department, salary) ==
    IF \E i \in DOMAIN departments_dict :
           departments_dict[i].department = department
    THEN [i \in DOMAIN departments_dict |->
             IF departments_dict[i].department = department
             THEN [departments_dict[i] EXCEPT !.salaries = Append(@, salary)]
             ELSE departments_dict[i]]
    ELSE <<[department |-> department, salaries |-> <<salary>>]>>
         \o departments_dict

\* departments_dict[department].append(salary) on a defaultdict(list).
SalariesAdd(departments_dict, department, salary) ==
    IF \E i \in DOMAIN departments_dict :
           departments_dict[i].department = department
    THEN [i \in DOMAIN departments_dict |->
             IF departments_dict[i].department = department
             THEN [departments_dict[i] EXCEPT !.salaries = Append(@, salary)]
             ELSE departments_dict[i]]
    ELSE Append(departments_dict,
                [department |-> department, salaries |-> <<salary>>])

\* The first loop of generate_report_by_department from line line_number on:
\* split needs a separator that is not empty, the unpacking _, department,
\* *_, salary three fields, and int(salary) an integer literal.
RECURSIVE SalariesLoop(_, _, _, _)
SalariesLoop(lines, line_number, sep, departments_dict) ==
    IF line_number > Len(lines)
    THEN [error |-> NoError, value |-> departments_dict]
    ELSE LET fields == Split(lines[line_number], sep)
         IN  IF sep = <<>> \/ Len(fields) < 3 \/ ~IsInt(fields[Len(fields)])
             THEN [error |-> "ValueError", value |-> departments_dict]
             ELSE SalariesLoop(lines, line_number + 1, sep,
                      SalariesAdd(departments_dict, fields[2],
                                  ParseInt(fields[Len(fields)])))

RECURSIVE sum(_)
sum(salaries) == IF salaries = <<>> THEN 0 ELSE Head(salaries) + sum(Tail(salaries))

min(salaries) ==
    CHOOSE m \in {salaries[i] : i \in DOMAIN salaries} :
        \A i \in DOMAIN salaries : m <= salaries[i]

max(salaries) ==
    CHOOSE m \in {salaries[i] : i \in DOMAIN salaries} :
        \A i \in DOMAIN salaries : m >= salaries[i]

\* f'{min(salaries)} - {max(salaries)}'
RangeText(lo, hi) == IntStr(lo) \o <<" ", "-", " ">> \o IntStr(hi)

\* DepartmentSummary with the range taken from the first and the last salary
\* read instead of the least and the greatest.
DepartmentSummaryFirstLast(department, salaries) ==
    [name |-> department,
     count |-> Len(salaries),
     range |-> RangeText(salaries[1], salaries[Len(salaries)]),
     average |-> [num |-> sum(salaries), den |-> Len(salaries)]]

\* The dict appended for one department.  Its keys are the four Labels, in
\* that order; average is the float sum / len, kept as the fraction whose
\* nearest double it is.
DepartmentSummary(department, salaries) ==
    [name |-> department,
     count |-> Len(salaries),
     range |-> RangeText(min(salaries), max(salaries)),
     average |-> [num |-> sum(salaries), den |-> Len(salaries)]]

\* The second loop: one dict per item of departments_dict, in its order.
SummaryList(departments_dict) ==
    [i \in DOMAIN departments_dict |->
        DepartmentSummary(departments_dict[i].department,
                          departments_dict[i].salaries)]

generate_report_by_department(lines, sep) ==
    LET parsed == SalariesLoop(lines, FirstDataLine, sep, <<>>)
    IN  IF parsed.error # NoError THEN [error |-> parsed.error, value |-> <<>>]
        ELSE [error |-> NoError, value |-> SummaryList(parsed.value)]

-----------------------------------------------------------------------------
(* Printing and saving.                                                    *)

\* The enumerations of a set: the orders in which iterating it may yield its
\* elements (str hashes are salted per process).
Enumerations(S) ==
    {e \in [1..Cardinality(S) -> S] : \A i, j \in DOMAIN e : e[i] = e[j] => i = j}

\* One enumeration of its teams for each department.
TeamOrders(departments_list) ==
    {o \in [DOMAIN departments_list ->
               UNION {Enumerations(departments_list[i].teams) :
                          i \in DOMAIN departments_list}] :
        \A i \in DOMAIN departments_list :
            o[i] \in Enumerations(departments_list[i].teams)}

\* The concatenation of a sequence of sequences.
RECURSIVE Flatten(_)
Flatten(ss) == IF ss = <<>> THEN <<>> ELSE Head(ss) \o Flatten(Tail(ss))

\* What print_department_hierarchy prints, one item per call of print, the
\* teams of each department in the order order gives.
print_department_hierarchy(departments_list, order) ==
    Flatten([i \in DOMAIN departments_list |->
        <<DepartmentPrefix \o departments_list[i].department>>
        \o [k \in DOMAIN order[i] |-> TeamPrefix \o order[i][k]]])

\* The values of a department's dict as f-strings write them, in key order.
ValueTexts(department) ==
    <<department.name,
      IntStr(department.count),
      department.range,
      FloatStr(department.average.num, department.average.den)>>

\* What print_department_report prints: 'key: value' for the four items of
\* each department, then an empty line.
print_department_report(departments_list) ==
    Flatten([i \in DOMAIN departments_list |->
        [k \in 1..4 |-> Labels[k] \o <<":", " ">>
                        \o ValueTexts(departments_list[i])[k]]
        \o << <<>> >>])

\* line += f'{text}{separator}' for each text.
RECURSIVE JoinEach(_, _)
JoinEach(texts, sep) ==
    IF texts = <<>> THEN <<>>
    ELSE Head(texts) \o sep \o JoinEach(Tail(texts), sep)

\* line[:-1]
DropLast(line) == IF line = <<>> THEN <<>> ELSE SubSeq(line, 1, Len(line) - 1)

\* One written line: the texts, each followed by the separator, the last
\* character cut, and the newline.
WrittenLine(texts, sep) == Append(DropLast(JoinEach(texts, sep)), "\n")

\* The lines save_department_report writes for a non-empty departments_list.
SavedLines(departments_list, sep) ==
    <<WrittenLine(Labels, sep)>>
    \o [i \in DOMAIN departments_list |->
           WrittenLine(ValueTexts(departments_list[i]), sep)]

-----------------------------------------------------------------------------
(* The inputs of the model.                                                *)

\* sep.join(fields)
RECURSIVE Join(_, _)
Join(fields, sep) ==
    IF fields = <<>> THEN <<>>
    ELSE IF Len(fields) = 1 THEN Head(fields)
    ELSE Head(fields) \o sep \o Join(Tail(fields), sep)

\* The separators tried: the default, a longer string, and a character that
\* the labels and the salary range contain.
Separators == {SEPARATOR, <<":", ":">>, <<" ">>}

HeaderFields ==
    << <<"i", "d">>, <<"d", "e", "p">>, <<"t", "e", "a", "m">>,
       <<"r", "o", "l", "e">>, <<"l", "v", "l">>, <<"s", "a", "l">> >>

\* The rows a data line is drawn from: three full rows (two departments, a
\* team name that both use, a salary followed by a form feed, a negative
\* salary), a three-column row, a two-column row, and a row whose salary is
\* no integer.
FieldRows ==
    { << <<"1">>, <<"A">>, <<"x">>, <<"r">>, <<"2">>, <<"1", "0">> >>,
      << <<"2">>, <<"A">>, <<"y">>, <<"r">>, <<"2">>, <<"3", "0", "\f">> >>,
      << <<"3">>, <<"B">>, <<"x">>, <<"r">>, <<"2">>, <<"-", "7">> >>,
      << <<"4">>, <<"A">>, <<"8">> >>,
      << <<"5">>, <<"B">> >>,
      << <<"6">>, <<"A">>, <<"x">>, <<"r">>, <<"2">>, <<"z", "z">> >> }

TextLine(fields, sep) == Append(Join(fields, sep), "\n")

\* The input files: the header line and up to most data lines.
InputContents(sep, most) ==
    UNION {{<<TextLine(HeaderFields, sep)>>
                \o [i \in 1..n |-> TextLine(rows[i], sep)] :
            rows \in [1..n -> FieldRows]} : n \in 0..most}

\* Another path for the input, with another extension.
OtherInput == <<"t", "e", "s", "t", ".", "t", "x", "t">>

Paths == {INPUT_FILE, OUTPUT_FILE, OtherInput}

\* A file left at the output path by an earlier run.
OldReport ==
    [exists |-> TRUE, lines |-> <<WrittenLine(Labels, SEPARATOR)>>, mtime |-> 1]

\* A file of the same size and modification time as file, of other content.
Twin(file) ==
    [file EXCEPT !.lines = <<[file.lines[1] EXCEPT ![1] = "#"]>> \o Tail(file.lines)]

\* A later copy of file.
Copy(file) == [file EXCEPT !.mtime = 2]

\* The files that may be at the output path when the input file is there.
OutputFiles(file) == {NoFile, OldReport, Copy(file), Twin(file)}

\* What input() may read as the menu option: a line of stdin.
MenuInputs == {"1", "2", "3", "4", ""}

\* stdin at its end: input() raises EOFError.
EndOfFile == "EndOfFile"

\* argv[0].
Script == <<"r", "e", "p", "o", "r", "t", ".", "p", "y">>

\* The command lines tried: no argument; each parameter given by its short
\* or its long key; the output path set to the input path; the empty
\* separator; a key that ends the command line; a key given twice.
Arguments ==
    { <<>>,
      << <<"-", "s">>, <<":", ":">> >>,
      << <<"-", "-", "s", "e", "p", "a", "r", "a", "t", "o", "r">>, <<" ">> >>,
      << <<"-", "i", "f">>, OtherInput >>,
      << <<"-", "-", "i", "n", "p", "u", "t", "-", "f", "i", "l", "e">>,
         INPUT_FILE, <<"-", "o", "f">>, INPUT_FILE >>,
      << <<"-", "-", "o", "u", "t", "p", "u", "t", "-", "f", "i", "l", "e">>,
         OUTPUT_FILE, <<"-", "s">>, SEPARATOR, <<"-", "i", "f">>, INPUT_FILE >>,
      << <<"-", "s">>, <<>> >>,
      << <<"-", "o", "f">>, OUTPUT_FILE, <<"-", "s">> >>,
      << <<"-", "s">>, SEPARATOR,
         <<"-", "-", "s", "e", "p", "a", "r", "a", "t", "o", "r">>, SEPARATOR >> }

-----------------------------------------------------------------------------
(* The run.                                                                *)

\* generate_report called on an existing input file, with any option of the
\* menu, the output path free or taken by an earlier report.
Init ==
    /\ argv = <<Script>>
    /\ input_filename = INPUT_FILE
    /\ output_filename = OUTPUT_FILE
    /\ separator \in Separators
    /\ option \in {"1", "2", "3"}
    /\ \E lines \in InputContents(separator, MaxLines),
          old \in {NoFile, OldReport} :
           fs = [p \in Paths |->
                    IF p = INPUT_FILE THEN [exists |-> TRUE, lines |-> lines, mtime |-> 1]
                    ELSE IF p = OUTPUT_FILE THEN old
                    ELSE NoFile]
    /\ pc = "report"
    /\ err = NoError
    /\ hierarchy = <<>>
    /\ report = <<>>
    /\ console = <<>>

\* The script started with some command line, an input file written with
\* some separator at the default path, at another path or nowhere, and the
\* default output path free or taken.
InitMain ==
    /\ \E arguments \in Arguments : argv = <<Script>> \o arguments
    /\ input_filename = Unbound
    /\ output_filename = Unbound
    /\ separator = Unbound
    /\ option = Unset
    /\ \E sep \in Separators :
       \E lines \in InputContents(sep, MainLines) :
           LET file == [exists |-> TRUE, lines |-> lines, mtime |-> 1]
           IN  \/ \E out \in OutputFiles(file) :
                      fs = [p \in Paths |->
                               IF p = INPUT_FILE THEN file
                               ELSE IF p = OUTPUT_FILE THEN out
                               ELSE NoFile]
               \/ fs = [p \in Paths |-> IF p = OtherInput THEN file ELSE NoFile]
               \/ /\ lines = <<TextLine(HeaderFields, sep)>>
                  /\ \E out \in {NoFile, OldReport} :
                         fs = [p \in Paths |-> IF p = OUTPUT_FILE THEN out ELSE NoFile]
    /\ pc = "main"
    /\ err = NoError
    /\ hierarchy = <<>>
    /\ report = <<>>
    /\ console = <<>>

\* parse_parameters called by the script: the three names bound when the
\* command line is well formed, then validate_files, then the return.
ParseParameters ==
    /\ pc = "main"
    /\ LET r == parse_parameters(argv)
       IN  /\ input_filename' = r.input_filename
           /\ output_filename' = r.output_filename
           /\ separator' = r.separator
           /\ IF r.error = NoError
              THEN pc' = "menu" /\ err' = err
              ELSE pc' = "done" /\ err' = r.error
    /\ UNCHANGED <<argv, option, fs, hierarchy, report, console>>

\* get_menu_option, lines 112-116: the five lines of the menu printed.
PrintMenu ==
    /\ pc = "menu"
    /\ console' = console \o MenuPrompt
    /\ pc' = "input"
    /\ UNCHANGED <<argv, input_filename, output_filename, separator, option,
                   fs, err, hierarchy, report>>

\* get_menu_option, lines 117-121: input() returns a line of stdin or raises
\* EOFError; the option is returned, or ValueError raised.
GetMenuOption ==
    /\ pc = "input"
    /\ \E o \in MenuInputs \cup {EndOfFile} :
           IF o = EndOfFile
           THEN option' = option /\ pc' = "done" /\ err' = "EOFError"
           ELSE IF o \in {"1", "2", "3"}
           THEN option' = o /\ pc' = "report" /\ err' = err
           ELSE option' = option /\ pc' = "done" /\ err' = "ValueError"
    /\ UNCHANGED <<argv, input_filename, output_filename, separator, fs,
                   hierarchy, report, console>>

\* generate_report, option '1': generate_hierarchy on the open input file.
GenerateHierarchy ==
    /\ pc = "report"
    /\ option = "1"
    /\ LET r == generate_hierarchy(FileAt(input_filename).lines, separator)
       IN  IF r.error = NoError
           THEN hierarchy' = r.value /\ pc' = "generated" /\ err' = err
           ELSE hierarchy' = hierarchy /\ pc' = "done" /\ err' = r.error
    /\ UNCHANGED <<argv, input_filename, output_filename, separator, option, fs,
                   report, console>>

\* generate_report, option '1': print_department_hierarchy.
PrintDepartmentHierarchy ==
    /\ pc = "generated"
    /\ option = "1"
    /\ \E order \in TeamOrders(hierarchy) :
           console' = console \o print_department_hierarchy(hierarchy, order)
    /\ pc' = "done"
    /\ UNCHANGED <<argv, input_filename, output_filename, separator, option, fs,
                   err, hierarchy, report>>

\* GenerateReportByDepartment printing as it reads: when a line is malformed,
\* the departments read so far are already on the console.
StreamingGenerateReportByDepartment ==
    /\ pc = "report"
    /\ option # "1"
    /\ LET lines == FileAt(input_filename).lines
           parsed == SalariesLoop(lines, FirstDataLine, separator, <<>>)
       IN  IF parsed.error = NoError
           THEN /\ report' = SummaryList(parsed.value)
                /\ pc' = "generated" /\ err' = err /\ console' = console
           ELSE /\ report' = report /\ pc' = "done" /\ err' = parsed.error
                /\ console' = console
                       \o print_department_report(SummaryList(parsed.value))
    /\ UNCHANGED <<argv, input_filename, output_filename, separator, option, fs,
                   hierarchy>>

\* GenerateReportByDepartment with the output file opened for writing before
\* the input is read.
OpenFirstGenerateReportByDepartment ==
    /\ pc = "report"
    /\ option # "1"
    /\ LET r == generate_report_by_department(FileAt(input_filename).lines, separator)
       IN  IF r.error = NoError
           THEN report' = r.value /\ pc' = "generated" /\ err' = err
           ELSE report' = report /\ pc' = "done" /\ err' = r.error
    /\ fs' = IF option = "2" THEN fs ELSE Written(output_filename, <<>>)
    /\ UNCHANGED <<argv, input_filename, output_filename, separator, option,
                   hierarchy, console>>

\* generate_report, any other option: generate_report_by_department on the
\* open input file.
GenerateReportByDepartment ==
    /\ pc = "report"
    /\ option # "1"
    /\ LET r == generate_report_by_department(FileAt(input_filename).lines, separator)
       IN  IF r.error = NoError
           THEN report' = r.value /\ pc' = "generated" /\ err' = err
           ELSE report' = report /\ pc' = "done" /\ err' = r.error
    /\ UNCHANGED <<argv, input_filename, output_filename, separator, option, fs,
                   hierarchy, console>>

\* generate_report, option '2': print_department_report.
PrintDepartmentReport ==
    /\ pc = "generated"
    /\ option = "2"
    /\ console' = console \o print_department_report(report)
    /\ pc' = "done"
    /\ UNCHANGED <<argv, input_filename, output_filename, separator, option, fs,
                   err, hierarchy, report>>

\* generate_report, the last branch: save_department_report.  open(..., 'w+')
\* creates or truncates the output file; departments_list[0] then raises
\* IndexError on an empty list, and the file stays empty.
SaveDepartmentReport ==
    /\ pc = "generated"
    /\ option \notin {"1", "2"}
    /\ fs' = Written(output_filename,
                     IF report = <<>> THEN <<>>
                     ELSE SavedLines(report, separator))
    /\ err' = IF report = <<>> THEN "IndexError" ELSE err
    /\ pc' = "done"
    /\ UNCHANGED <<argv, input_filename, output_filename, separator, option,
                   hierarchy, report, console>>

\* generate_report.
Next ==
    \/ GenerateHierarchy
    \/ PrintDepartmentHierarchy
    \/ GenerateReportByDepartment
    \/ PrintDepartmentReport
    \/ SaveDepartmentReport

Spec == Init /\ [][Next]_vars

\* The script: parse_parameters, get_menu_option, generate_report.
NextMain ==
    \/ ParseParameters
    \/ PrintMenu
    \/ GetMenuOption
    \/ Next

SpecMain == InitMain /\ [][NextMain]_vars

-----------------------------------------------------------------------------
(* What the input says, read off the input file independently of the run.  *)

\* The data lines: every line after the first.
InputData ==
    LET lines == fs[input_filename].lines IN SubSeq(lines, 2, Len(lines))

FieldsOf(k) == Split(InputData[k], separator)
DepartmentOf(k) == FieldsOf(k)[2]
TeamOf(k) == FieldsOf(k)[3]
SalaryOf(k) == ParseInt(FieldsOf(k)[Len(FieldsOf(k))])

\* Every data line has the fields generate_hierarchy unpacks.
ValidForHierarchy == \A k \in DOMAIN InputData : Len(FieldsOf(k)) >= 3

\* Every data line has the fields generate_report_by_department unpacks, the
\* last of them an integer.
ValidForReport ==
    \A k \in DOMAIN InputData :
        Len(FieldsOf(k)) >= 3 /\ IsInt(FieldsOf(k)[Len(FieldsOf(k))])

\* The data lines that bear a department.
LinesOf(department) == {k \in DOMAIN InputData : DepartmentOf(k) = department}

\* The first data line that bears a department.
FirstLineOf(department) ==
    CHOOSE k \in LinesOf(department) : \A l \in LinesOf(department) : k <= l

RECURSIVE SalarySum(_)
SalarySum(ks) ==
    IF ks = {} THEN 0
    ELSE LET k == CHOOSE x \in ks : TRUE IN SalaryOf(k) + SalarySum(ks \ {k})

LeastSalary(ks) ==
    CHOOSE m \in {SalaryOf(k) : k \in ks} : \A k \in ks : m <= SalaryOf(k)

GreatestSalary(ks) ==
    CHOOSE m \in {SalaryOf(k) : k \in ks} : \A k \in ks : m >= SalaryOf(k)

\* The text of a written line without its newline.
Chomp(line) ==
    IF line # <<>> /\ line[Len(line)] = "\n"
    THEN SubSeq(line, 1, Len(line) - 1) ELSE line

EndsWith(s, p) ==
    Len(p) <= Len(s) /\ SubSeq(s, Len(s) - Len(p) + 1, Len(s)) = p

\* generate_report_by_department has returned.
ReportReturned == pc = "generated" /\ option # "1"

\* generate_hierarchy has returned.
HierarchyReturned == pc = "generated" /\ option = "1"

\* save_department_report has returned.
ReportSaved == pc = "done" /\ option = "3" /\ err = NoError

-----------------------------------------------------------------------------
(* The claims.                                                             *)

\* C1: for every input whose data lines are well formed,
\* generate_report_by_department returns exactly one summary per distinct
\* department of the data lines; each summary's count is the number of data
\* lines bearing the department and is at least 1, its range is built from
\* the least and the greatest salary of the department (least <= greatest),
\* its average is sum / count, and least <= average <= greatest.
C1_SummaryPerDepartment ==
    /\ (ValidForReport /\ option # "1" /\ pc # "report") => err # "ValueError"
    /\ ReportReturned =>
        /\ ValidForReport
        /\ {report[i].name : i \in DOMAIN report}
               = {DepartmentOf(k) : k \in DOMAIN InputData}
        /\ \A i, j \in DOMAIN report : report[i].name = report[j].name => i = j
        /\ \A i \in DOMAIN report :
               LET ks == LinesOf(report[i].name)
                   lo == LeastSalary(ks)
                   hi == GreatestSalary(ks)
                   avg == report[i].average
               IN  /\ report[i].count = Cardinality(ks)
                   /\ report[i].count >= 1
                   /\ lo <= hi
                   /\ report[i].range = IntStr(lo) \o <<" ", "-", " ">> \o IntStr(hi)
                   /\ avg.den > 0
                   /\ avg.num * report[i].count = SalarySum(ks) * avg.den
                   /\ lo * avg.den <= avg.num
                   /\ avg.num <= hi * avg.den

\* C1 witness: a report of two departments, one of them with two salaries,
\* the greater read first.
C1_Witness ==
    /\ ReportReturned
    /\ Len(report) = 2
    /\ \E i \in DOMAIN report :
           /\ report[i].count = 2
           /\ report[i].range = <<"1", "0", " ", "-", " ", "3", "0">>
           /\ SalaryOf(FirstLineOf(report[i].name)) = 30

\* C2: the summaries returned by generate_report_by_department are in the
\* order of the first occurrence of their departments in the data lines.
C2_FirstSeenOrder ==
    ReportReturned =>
        \A i, j \in DOMAIN report :
            i < j <=> FirstLineOf(report[i].name) < FirstLineOf(report[j].name)

\* C2 witness: department B is read first, A second, B again.
C2_Witness ==
    /\ ReportReturned
    /\ Len(report) = 2
    /\ report[1].name = <<"B">>
    /\ report[1].count = 2
    /\ Len(InputData) = 3
    /\ DepartmentOf(2) = <<"A">>

\* C3: for every valid input, the keys of the mapping generate_hierarchy
\* returns are the distinct departments of the data lines (header excluded),
\* and the value of each is the set of the teams of the data lines bearing
\* it.
C3_HierarchyOfInput ==
    /\ (ValidForHierarchy /\ option = "1") => err = NoError
    /\ HierarchyReturned =>
        /\ ValidForHierarchy
        /\ {hierarchy[i].department : i \in DOMAIN hierarchy}
               = {DepartmentOf(k) : k \in DOMAIN InputData}
        /\ \A i, j \in DOMAIN hierarchy :
               hierarchy[i].department = hierarchy[j].department => i = j
        /\ \A i \in DOMAIN hierarchy :
               hierarchy[i].teams
                   = {TeamOf(k) : k \in LinesOf(hierarchy[i].department)}

\* C3 witness: three data lines of one department, two of them with the same
\* team.
C3_Witness ==
    /\ HierarchyReturned
    /\ Len(InputData) = 3
    /\ Len(hierarchy) = 1
    /\ Cardinality(hierarchy[1].teams) = 2

\* C4 as stated: in the hierarchy generate_hierarchy builds, no team name is
\* a member of the team sets of two different departments.
C4_TeamUnderOneDepartment ==
    HierarchyReturned =>
        \A i, j \in DOMAIN hierarchy :
            i # j => hierarchy[i].teams \cap hierarchy[j].teams = {}

\* C4 amended: a team name is a member of the team sets of two different
\* departments only when the input has data lines bearing that team under
\* both of them.
C4_SharedTeamOnlyFromInput ==
    HierarchyReturned =>
        \A i, j \in DOMAIN hierarchy :
            i # j =>
                \A t \in hierarchy[i].teams \cap hierarchy[j].teams :
                    /\ \E k \in LinesOf(hierarchy[i].department) : TeamOf(k) = t
                    /\ \E k \in LinesOf(hierarchy[j].department) : TeamOf(k) = t

\* C4 witness: a team name under two departments.
C4_Witness ==
    /\ HierarchyReturned
    /\ \E i, j \in DOMAIN hierarchy :
           i # j /\ hierarchy[i].teams \cap hierarchy[j].teams # {}

\* C5: for a non-empty summary sequence and any separator,
\* save_department_report writes the four labels joined by the separator,
\* then one line per department, in order, of its four values joined by the
\* separator; no line ends with the separator or with a part of it.
C5_SavedLinesJoined ==
    ReportSaved =>
        LET out == fs[output_filename].lines
        IN  /\ Len(out) = Len(report) + 1
            /\ out[1] = TextLine(Labels, separator)
            /\ \A i \in DOMAIN report :
                   out[i + 1] = TextLine(ValueTexts(report[i]), separator)
            /\ \A i \in DOMAIN out :
                   \A n \in 1..Len(separator) :
                       ~EndsWith(Chomp(out[i]), SubSeq(separator, 1, n))

\* C6: splitting each line save_department_report wrote on the separator
\* gives back four fields, equal as text to the labels (first line) or to the
\* name, count, range and average of the matching summary.
C6_RoundTrip ==
    ReportSaved =>
        LET out == fs[output_filename].lines
        IN  /\ Len(out) = Len(report) + 1
            /\ Split(Chomp(out[1]), separator) = Labels
            /\ \A i \in DOMAIN report :
                   Split(Chomp(out[i + 1]), separator) = ValueTexts(report[i])

\* C7: on an input of the header line alone, generate_hierarchy and
\* generate_report_by_department return empty results, and saving the report
\* (option 3) fails with EmptyReportError.
C7_EmptyInput ==
    Len(fs[input_filename].lines) = 1 =>
        /\ pc = "generated" => hierarchy = <<>> /\ report = <<>>
        /\ (pc = "done" /\ option = "3") => err = "EmptyReportError"

\* C8 as stated: in text mode, when a data line after well-formed ones is
\* malformed, the output for the lines before it is on the console when the
\* run aborts.
C8_PrefixPrintedBeforeAbort ==
    (/\ option \in {"1", "2"}
     /\ pc = "done"
     /\ err = "ValueError"
     /\ Len(FieldsOf(1)) >= 3
     /\ IsInt(FieldsOf(1)[Len(FieldsOf(1))]))
        => console # <<>>

\* C8 amended: in text mode the input is read to its end before anything is
\* printed: when a data line is malformed the run aborts with the error and
\* nothing is on the console, whatever precedes the line; a run that does not
\* abort prints every department.
C8_NothingPrintedBeforeAbort ==
    /\ (option \in {"1", "2"} /\ err # NoError) => console = <<>>
    /\ (option \in {"1", "2"} /\ pc = "done" /\ err = NoError) =>
           \A k \in DOMAIN InputData :
               \E n \in DOMAIN console :
                   console[n] \in {DepartmentPrefix \o DepartmentOf(k),
                                   LabelName \o <<":", " ">> \o DepartmentOf(k)}

\* C8 witness: text mode aborted on a malformed line that follows a
\* well-formed one.
C8_Witness ==
    /\ option = "2"
    /\ pc = "done"
    /\ err = "ValueError"
    /\ Len(InputData) >= 2
    /\ Len(FieldsOf(1)) >= 3
    /\ IsInt(FieldsOf(1)[Len(FieldsOf(1))])

\* C9: in file mode, if a data line lacks the fields or its last field is not
\* an integer, the run aborts with the error and the output path is neither
\* created, opened for writing nor truncated.
C9_NoOutputOnMalformedInput ==
    [][(pc = "report" /\ option = "3" /\ ~ValidForReport)
           => (pc' = "done" /\ err' = "ValueError" /\ fs' = fs)]_vars

\* C9 witness: file mode aborted on a malformed line, the earlier report
\* still at the output path.
C9_Witness ==
    /\ option = "3"
    /\ pc = "done"
    /\ err = "ValueError"
    /\ fs[output_filename] = OldReport
    /\ Len(InputData) >= 2

\* What validate_files is to reject.
InputRejected ==
    \/ separator = <<>>
    \/ ~exists(input_filename)
    \/ Split(input_filename, <<".">>)[Len(Split(input_filename, <<".">>))]
           # <<"c", "s", "v">>
    \/ /\ exists(input_filename) /\ exists(output_filename)
       /\ FileAt(input_filename).lines = FileAt(output_filename).lines
    \/ /\ exists(input_filename)
       /\ LET line == Readline(FileAt(input_filename).lines, 2)
              fields == Split(line, separator)
          IN  Len(fields) # 6 \/ ~IsInt(fields[6])

\* C10: validate_files raises ValueError when the input path names no file,
\* does not end in .csv, is byte-identical to an existing output, or has a
\* second line that is not six fields with an integer sixth, whatever the
\* state of the output path; so the run ends in parse_parameters.
C10_ValidateRejects ==
    (input_filename # Unbound /\ InputRejected) =>
        (pc = "done" /\ option = Unset /\ err = "ValueError")

====
